---- MODULE Spec2Model ----
(***************************************************************************)
(* Optimizer / lr-scheduler checkpoint persistence of nanotron             *)
(* (src/nanotron/serialize/optimizer.py).                                  *)
(*                                                                         *)
(* A job is a set of processes, one per (pipeline, data, tensor)           *)
(* coordinate of a topology.  All of them share one checkpoint root on     *)
(* the filesystem.  Every process owns an optimizer and an lr scheduler    *)
(* object and may call save_optimizer, save_lr_scheduler, load_optimizer   *)
(* and load_lr_scheduler in any order; the calls of different processes    *)
(* interleave freely.  The optimizer and the scheduler are collaborators:  *)
(* what state_dict() returns is an input of a save call, and what a load   *)
(* call hands to load_state_dict() is its output.  A checkpoint may be     *)
(* read back by a process of any topology (a resumed job).                 *)
(***************************************************************************)
EXTENDS Integers, Sequences, FiniteSets, TLC

\* largest world size along one axis (pipeline, data or tensor)
MaxAxis == 2
\* largest number of processes of a job (pp_size * dp_size * tp_size)
MaxWorld == 4
\* optimizer / scheduler states are numbered 0..MaxVer
MaxVer == 1
\* calls started in a run in which the calls proceed line by line
MaxCalls == 2

VARIABLES
    topo,        \* world sizes of the job that writes the checkpoint: [pp, dp, tp]
    is_zero,     \* optimizer.inherit_from(optim.ZeroDistributedOptimizer)
    dirs,        \* directories that exist under the checkpoint root
    files,       \* path -> content, for the files under the checkpoint root
    last,        \* the call that returned last, and how it returned
    held,        \* parallel context -> the state_dict its last save_optimizer was given
                 \* (forgotten when the file that call wrote is deleted)
    writers,     \* path of a file on disk -> the parallel contexts that have written it
    held_lr,     \* <<the state_dict global rank 0's last save_lr_scheduler was given>>,
                 \* <<>> before that save (forgotten when the scheduler file is deleted)
    pc,          \* parallel context -> where its process is: "idle" between calls, or
                 \* the function it is in and the filesystem operation it is about to do
    calls        \* number of calls started line by line

vars == <<topo, is_zero, dirs, files, last, held, writers, held_lr, pc, calls>>

----------------------------------------------------------------------------
(* Topologies and parallel contexts                                        *)

Topologies ==
    {t \in [pp : 1..MaxAxis, dp : 1..MaxAxis, tp : 1..MaxAxis] :
        t.pp * t.dp * t.tp <= MaxWorld}

\* the parallel contexts of the processes of a job of topology t
Contexts(t) ==
    {[pp_rank |-> i, pp_size |-> t.pp, dp_rank |-> j, dp_size |-> t.dp,
      tp_rank |-> k, tp_size |-> t.tp] :
        i \in 0..(t.pp - 1), j \in 0..(t.dp - 1), k \in 0..(t.tp - 1)}

AllContexts == UNION {Contexts(t) : t \in Topologies}

TopologyOf(ctx) == [pp |-> ctx.pp_size, dp |-> ctx.dp_size, tp |-> ctx.tp_size]

get_local_rank(ctx, mode) ==
    CASE mode = "DATA" -> ctx.dp_rank
      [] mode = "PIPELINE" -> ctx.pp_rank
      [] mode = "TENSOR" -> ctx.tp_rank

get_world_size(ctx, mode) ==
    CASE mode = "DATA" -> ctx.dp_size
      [] mode = "PIPELINE" -> ctx.pp_size
      [] mode = "TENSOR" -> ctx.tp_size
      [] mode = "GLOBAL" -> ctx.pp_size * ctx.dp_size * ctx.tp_size

get_global_rank(ctx) ==
    (ctx.pp_rank * ctx.dp_size + ctx.dp_rank) * ctx.tp_size + ctx.tp_rank

----------------------------------------------------------------------------
(* Optimizer and scheduler objects                                         *)

\* the slice of optimizer state a process holds: replicated over the data
\* axis without ZeRO (Zero-0), partitioned over it with ZeRO (Zero-1)
ShardOf(ctx, zero) ==
    IF zero THEN <<ctx.pp_rank, ctx.dp_rank, ctx.tp_rank>>
            ELSE <<ctx.pp_rank, ctx.tp_rank>>

\* what optimizer.state_dict() of a process can return
OptimizerStates(ctx, zero) ==
    {[shard |-> ShardOf(ctx, zero), ver |-> v] : v \in 0..MaxVer}

\* what lr_scheduler.state_dict() can return
SchedulerStates == {[last_epoch |-> v] : v \in 0..MaxVer}

\* optimizer.__class__.__name__
OptimizerClassName(zero) ==
    IF zero THEN "ZeroDistributedOptimizer" ELSE "NamedOptimizer"

----------------------------------------------------------------------------
(* File names; a path is the sequence of its parts under the root          *)

OPTIMIZER == "optimizer"
LR_SCHEDULER == "lr_scheduler"

\* variant: the ZeRO name leaves the data rank out
optimizer_filename_NoDataRank(parallel_context, zero) ==
    LET pp_rank == get_local_rank(parallel_context, "PIPELINE")
        pp_world_size == get_world_size(parallel_context, "PIPELINE")
        tp_rank == get_local_rank(parallel_context, "TENSOR")
        tp_world_size == get_world_size(parallel_context, "TENSOR")
    IN  OPTIMIZER \o "_pp-" \o ToString(pp_rank) \o "-of-" \o ToString(pp_world_size)
            \o "_tp-" \o ToString(tp_rank) \o "-of-" \o ToString(tp_world_size)
            \o ".pt"

optimizer_filename(parallel_context, zero) ==
    LET dp_rank == get_local_rank(parallel_context, "DATA")
        pp_rank == get_local_rank(parallel_context, "PIPELINE")
        dp_world_size == get_world_size(parallel_context, "DATA")
        pp_world_size == get_world_size(parallel_context, "PIPELINE")
    IN  IF zero = TRUE
        THEN LET tp_rank == get_local_rank(parallel_context, "TENSOR")
                 tp_world_size == get_world_size(parallel_context, "TENSOR")
             IN  OPTIMIZER \o "_pp-" \o ToString(pp_rank) \o "-of-" \o ToString(pp_world_size)
                    \o "_dp-" \o ToString(dp_rank) \o "-of-" \o ToString(dp_world_size)
                    \o "_tp-" \o ToString(tp_rank) \o "-of-" \o ToString(tp_world_size)
                    \o ".pt"
        ELSE OPTIMIZER \o "_pp-" \o ToString(pp_rank) \o "-of-" \o ToString(pp_world_size)
                    \o "_tp-" \o ToString(dp_rank) \o "-of-" \o ToString(dp_world_size)
                    \o ".pt"

lr_scheduler_filename == LR_SCHEDULER \o ".pt"

OptimizerFolder == "optimizer"
SchedulerFolder == "lr_scheduler"
ManifestPath == <<OptimizerFolder, "optimizer_config.json">>
OptimizerPath(ctx, zero) == <<OptimizerFolder, optimizer_filename(ctx, zero)>>
SchedulerPath == <<SchedulerFolder, lr_scheduler_filename>>

----------------------------------------------------------------------------
(* Filesystem and serialization primitives                                 *)

\* Path.mkdir(exist_ok=True, parents=True)
mkdir(ds, folder) == ds \cup {folder}

\* variant: an existing file is kept as it is
write_KeepExisting(fs, path, content) ==
    [p \in DOMAIN fs \cup {path} |-> IF p \in DOMAIN fs THEN fs[p] ELSE content]

\* open(path, "w") / torch.save(obj, path): create the file or replace its content
write(fs, path, content) ==
    [p \in DOMAIN fs \cup {path} |-> IF p = path THEN content ELSE fs[p]]

\* variant: a missing file is read as an empty state
torch_load_EmptyOnMissing(fs, path, map_location) ==
    IF path \in DOMAIN fs
    THEN [outcome |-> "returned", value |-> <<fs[path]>>, loc |-> map_location]
    ELSE [outcome |-> "returned", value |-> <<[empty |-> TRUE]>>, loc |-> map_location]

\* torch.load(path, map_location): the content, put on map_location, or
\* FileNotFoundError
torch_load(fs, path, map_location) ==
    IF path \in DOMAIN fs
    THEN [outcome |-> "returned", value |-> <<fs[path]>>, loc |-> map_location]
    ELSE [outcome |-> "FileNotFoundError", value |-> <<>>, loc |-> ""]

\* bookkeeping: ctx has written path
noteWriter(ws, path, ctx) ==
    [p \in DOMAIN ws \cup {path} |->
        IF p = path THEN (IF p \in DOMAIN ws THEN ws[p] ELSE {}) \cup {ctx} ELSE ws[p]]

\* bookkeeping: ctx has called save_optimizer with state_dict sd
noteHeld(h, ctx, sd) ==
    [c \in DOMAIN h \cup {ctx} |-> IF c = ctx THEN sd ELSE h[c]]

\* map_location arguments of load_optimizer (None, or a device)
MapLocations == {"None", "cuda"}

\* a call that has ended: op, how it ended, the state_dict it handed to
\* load_state_dict (none: <<>>) and the location torch.load put it on
Call(op, outcome, delivered, loc) ==
    [op |-> op, outcome |-> outcome, delivered |-> delivered, loc |-> loc]

----------------------------------------------------------------------------
(* Initial state: a job on an empty checkpoint root                        *)

Init ==
    /\ topo \in Topologies
    /\ is_zero \in BOOLEAN
    /\ dirs = {}
    /\ files = <<>>
    /\ last = Call("none", "none", <<>>, "")
    /\ held = <<>>
    /\ writers = <<>>
    /\ held_lr = <<>>
    /\ pc = [c \in Contexts(topo) |-> "idle"]
    /\ calls = 0

----------------------------------------------------------------------------
(* Operations                                                              *)

\* variant: the early return looks at the data rank alone
OwnsWrite_DataRankOnly(ctx, zero) ==
    ~(get_local_rank(ctx, "DATA") > 0)

\* save_optimizer goes on to torch.save (it does not take the early return)
OwnsWrite(ctx, zero) ==
    ~((~zero) /\ get_local_rank(ctx, "DATA") > 0)

\* save_optimizer writes the manifest
WritesManifest(ctx) ==
    get_world_size(ctx, "GLOBAL") = 0

save_optimizer(ctx, sd) ==
    LET root_folder == OptimizerFolder
        manifest == <<root_folder, "optimizer_config.json">>
        path == <<root_folder, optimizer_filename(ctx, is_zero)>>
        fs1 == IF WritesManifest(ctx)
               THEN write(files, manifest, [type |-> OptimizerClassName(is_zero)])
               ELSE files
        ws1 == IF WritesManifest(ctx) THEN noteWriter(writers, manifest, ctx) ELSE writers
    IN  /\ held' = noteHeld(held, ctx, sd)
        /\ dirs' = mkdir(dirs, root_folder)
        /\ IF ~OwnsWrite(ctx, is_zero)
           THEN /\ files' = fs1
                /\ writers' = ws1
                /\ last' = Call("save_optimizer", "returned", <<>>, "")
           ELSE /\ files' = write(fs1, path, sd)
                /\ writers' = noteWriter(ws1, path, ctx)
                /\ last' = Call("save_optimizer", "returned", <<>>, "")
        /\ UNCHANGED <<topo, is_zero, pc, calls, held_lr>>

\* variant: no early return, every rank writes
save_lr_scheduler_EveryRank(ctx, sd) ==
    LET root_folder == SchedulerFolder
        path == <<root_folder, lr_scheduler_filename>>
    IN  /\ dirs' = mkdir(dirs, root_folder)
        /\ files' = write(files, path, sd)
        /\ writers' = noteWriter(writers, path, ctx)
        /\ held_lr' = IF get_global_rank(ctx) = 0 THEN <<sd>> ELSE held_lr
        /\ last' = Call("save_lr_scheduler", "returned", <<>>, "")
        /\ UNCHANGED <<topo, is_zero, pc, calls, held>>

save_lr_scheduler(ctx, sd) ==
    /\ IF get_global_rank(ctx) > 0
       THEN /\ last' = Call("save_lr_scheduler", "returned", <<>>, "")
            /\ UNCHANGED <<dirs, files, writers, held_lr>>
       ELSE LET root_folder == SchedulerFolder
                path == <<root_folder, lr_scheduler_filename>>
            IN  /\ dirs' = mkdir(dirs, root_folder)
                /\ files' = write(files, path, sd)
                /\ writers' = noteWriter(writers, path, ctx)
                /\ held_lr' = <<sd>>
                /\ last' = Call("save_lr_scheduler", "returned", <<>>, "")
    /\ UNCHANGED <<topo, is_zero, pc, calls, held>>

\* variant: the caller's map_location is used in both modes
load_optimizer_CallerLocation(ctx, map_location) ==
    LET root_folder == OptimizerFolder
        location == map_location
        path == <<root_folder, optimizer_filename(ctx, is_zero)>>
        state_dict == torch_load(files, path, location)
    IN  /\ last' = Call("load_optimizer", state_dict.outcome, state_dict.value, state_dict.loc)
        /\ UNCHANGED <<topo, is_zero, pc, calls, dirs, files, held, writers, held_lr>>

load_optimizer(ctx, map_location) ==
    LET root_folder == OptimizerFolder
        location == IF ~is_zero THEN "cpu" ELSE map_location
        path == <<root_folder, optimizer_filename(ctx, is_zero)>>
        state_dict == torch_load(files, path, location)
    IN  /\ last' = Call("load_optimizer", state_dict.outcome, state_dict.value, state_dict.loc)
        /\ UNCHANGED <<topo, is_zero, pc, calls, dirs, files, held, writers, held_lr>>

\* variant: the scheduler file is looked up in the optimizer folder
load_lr_scheduler_OptimizerFolder ==
    LET root_folder == OptimizerFolder
        state_dict == torch_load(files, <<root_folder, lr_scheduler_filename>>, "None")
    IN  /\ last' = Call("load_lr_scheduler", state_dict.outcome, state_dict.value, state_dict.loc)
        /\ UNCHANGED <<topo, is_zero, pc, calls, dirs, files, held, writers, held_lr>>

load_lr_scheduler ==
    LET root_folder == SchedulerFolder
        state_dict == torch_load(files, <<root_folder, lr_scheduler_filename>>, "None")
    IN  /\ last' = Call("load_lr_scheduler", state_dict.outcome, state_dict.value, state_dict.loc)
        /\ UNCHANGED <<topo, is_zero, pc, calls, dirs, files, held, writers, held_lr>>

\* a file of the checkpoint is deleted from outside; the saves that wrote it
\* no longer count as saves into this checkpoint
remove_file(path) ==
    /\ path \in DOMAIN files
    /\ files' = [p \in DOMAIN files \ {path} |-> files[p]]
    /\ writers' = [p \in DOMAIN writers \ {path} |-> writers[p]]
    /\ held' = [c \in {c \in DOMAIN held :
                        ~(c \in writers[path] /\ path = OptimizerPath(c, is_zero))}
                    |-> held[c]]
    /\ held_lr' = IF path = SchedulerPath THEN <<>> ELSE held_lr
    /\ last' = Call("remove_file", "returned", <<>>, "")
    /\ UNCHANGED <<topo, is_zero, pc, calls, dirs>>

Next ==
    \/ \E ctx \in Contexts(topo) : \E sd \in OptimizerStates(ctx, is_zero) : save_optimizer(ctx, sd)
    \/ \E ctx \in Contexts(topo) : \E sd \in SchedulerStates : save_lr_scheduler(ctx, sd)
    \/ \E ctx \in Contexts(topo) : \E m \in MapLocations : load_optimizer(ctx, m)
    \/ load_lr_scheduler
    \/ \E path \in DOMAIN files : remove_file(path)

Spec == Init /\ [][Next]_vars

\* the checkpoint is also read by processes of jobs of other topologies
NextResume ==
    \/ Next
    \/ \E ctx \in AllContexts \ Contexts(topo) : \E m \in MapLocations : load_optimizer(ctx, m)

SpecResume == Init /\ [][NextResume]_vars

\* the saves alone, on the trees saves and deletions leave behind
NextSaves ==
    \/ \E ctx \in Contexts(topo) : \E sd \in OptimizerStates(ctx, is_zero) : save_optimizer(ctx, sd)
    \/ \E ctx \in Contexts(topo) : \E sd \in SchedulerStates : save_lr_scheduler(ctx, sd)
    \/ \E path \in DOMAIN files : remove_file(path)

SpecSaves == Init /\ [][NextSaves]_vars

\* the optimizer functions alone
NextOptimizer ==
    \/ \E ctx \in Contexts(topo) : \E sd \in OptimizerStates(ctx, is_zero) : save_optimizer(ctx, sd)
    \/ \E ctx \in Contexts(topo) : \E m \in MapLocations : load_optimizer(ctx, m)
    \/ \E path \in DOMAIN files : remove_file(path)

SpecOptimizer == Init /\ [][NextOptimizer]_vars

----------------------------------------------------------------------------
(* The calls line by line: a process enters a function and then does its   *)
(* filesystem operations one at a time, the other processes running in     *)
(* between.  The state_dict is taken when torch.save is reached.           *)

\* a process enters a function; first is the operation it is about to do
call(ctx, first) ==
    /\ pc[ctx] = "idle"
    /\ calls < MaxCalls
    /\ pc' = [pc EXCEPT ![ctx] = first]
    /\ calls' = calls + 1
    /\ UNCHANGED <<topo, is_zero, dirs, files, last, held, writers, held_lr>>

\* save_optimizer: root_folder.mkdir
save_optimizer_mkdir(ctx) ==
    /\ pc[ctx] = "save_optimizer:mkdir"
    /\ dirs' = mkdir(dirs, OptimizerFolder)
    /\ pc' = [pc EXCEPT ![ctx] = "save_optimizer:save"]
    /\ UNCHANGED <<topo, is_zero, files, last, held, writers, held_lr, calls>>

\* save_optimizer: the manifest, the early return or torch.save, and the return
save_optimizer_save(ctx, sd) ==
    LET root_folder == OptimizerFolder
        manifest == <<root_folder, "optimizer_config.json">>
        path == <<root_folder, optimizer_filename(ctx, is_zero)>>
        fs1 == IF WritesManifest(ctx)
               THEN write(files, manifest, [type |-> OptimizerClassName(is_zero)])
               ELSE files
        ws1 == IF WritesManifest(ctx) THEN noteWriter(writers, manifest, ctx) ELSE writers
    IN  /\ pc[ctx] = "save_optimizer:save"
        /\ held' = noteHeld(held, ctx, sd)
        /\ IF ~OwnsWrite(ctx, is_zero)
           THEN /\ files' = fs1
                /\ writers' = ws1
           ELSE /\ files' = write(fs1, path, sd)
                /\ writers' = noteWriter(ws1, path, ctx)
        /\ last' = Call("save_optimizer", "returned", <<>>, "")
        /\ pc' = [pc EXCEPT ![ctx] = "idle"]
        /\ UNCHANGED <<topo, is_zero, dirs, held_lr, calls>>

\* save_lr_scheduler: the early return of the ranks above 0, or root_folder.mkdir
save_lr_scheduler_mkdir(ctx) ==
    /\ pc[ctx] = "save_lr_scheduler:mkdir"
    /\ IF get_global_rank(ctx) > 0
       THEN /\ last' = Call("save_lr_scheduler", "returned", <<>>, "")
            /\ pc' = [pc EXCEPT ![ctx] = "idle"]
            /\ UNCHANGED dirs
       ELSE /\ dirs' = mkdir(dirs, SchedulerFolder)
            /\ pc' = [pc EXCEPT ![ctx] = "save_lr_scheduler:save"]
            /\ UNCHANGED last
    /\ UNCHANGED <<topo, is_zero, files, held, writers, held_lr, calls>>

\* save_lr_scheduler: torch.save and the return
save_lr_scheduler_save(ctx, sd) ==
    LET path == <<SchedulerFolder, lr_scheduler_filename>>
    IN  /\ pc[ctx] = "save_lr_scheduler:save"
        /\ files' = write(files, path, sd)
        /\ writers' = noteWriter(writers, path, ctx)
        /\ held_lr' = <<sd>>
        /\ last' = Call("save_lr_scheduler", "returned", <<>>, "")
        /\ pc' = [pc EXCEPT ![ctx] = "idle"]
        /\ UNCHANGED <<topo, is_zero, dirs, held, calls>>

\* variant: torch.load waits until the file is there
load_optimizer_load_WaitsForFile(ctx, map_location) ==
    LET root_folder == OptimizerFolder
        location == IF ~is_zero THEN "cpu" ELSE map_location
        path == <<root_folder, optimizer_filename(ctx, is_zero)>>
        state_dict == torch_load(files, path, location)
    IN  /\ pc[ctx] = "load_optimizer:load"
        /\ path \in DOMAIN files
        /\ last' = Call("load_optimizer", state_dict.outcome, state_dict.value, state_dict.loc)
        /\ pc' = [pc EXCEPT ![ctx] = "idle"]
        /\ UNCHANGED <<topo, is_zero, dirs, files, held, writers, held_lr, calls>>

\* load_optimizer: torch.load, load_state_dict and the return (or the raise)
load_optimizer_load(ctx, map_location) ==
    LET root_folder == OptimizerFolder
        location == IF ~is_zero THEN "cpu" ELSE map_location
        path == <<root_folder, optimizer_filename(ctx, is_zero)>>
        state_dict == torch_load(files, path, location)
    IN  /\ pc[ctx] = "load_optimizer:load"
        /\ last' = Call("load_optimizer", state_dict.outcome, state_dict.value, state_dict.loc)
        /\ pc' = [pc EXCEPT ![ctx] = "idle"]
        /\ UNCHANGED <<topo, is_zero, dirs, files, held, writers, held_lr, calls>>

\* load_lr_scheduler: torch.load, load_state_dict and the return (or the raise)
load_lr_scheduler_load(ctx) ==
    LET root_folder == SchedulerFolder
        state_dict == torch_load(files, <<root_folder, lr_scheduler_filename>>, "None")
    IN  /\ pc[ctx] = "load_lr_scheduler:load"
        /\ last' = Call("load_lr_scheduler", state_dict.outcome, state_dict.value, state_dict.loc)
        /\ pc' = [pc EXCEPT ![ctx] = "idle"]
        /\ UNCHANGED <<topo, is_zero, dirs, files, held, writers, held_lr, calls>>

\* the next operation of the call a process is in
Step(ctx) ==
    /\ ctx \in Contexts(topo)
    /\ \/ save_optimizer_mkdir(ctx)
       \/ \E sd \in OptimizerStates(ctx, is_zero) : save_optimizer_save(ctx, sd)
       \/ save_lr_scheduler_mkdir(ctx)
       \/ \E sd \in SchedulerStates : save_lr_scheduler_save(ctx, sd)
       \/ \E m \in MapLocations : load_optimizer_load(ctx, m)
       \/ load_lr_scheduler_load(ctx)

\* the processes of a job, by global rank
Ranks == 0..(MaxWorld - 1)

\* a step of the process with global rank r
RankStep(r) == \E ctx \in Contexts(topo) : get_global_rank(ctx) = r /\ Step(ctx)

NextLines ==
    \/ \E ctx \in Contexts(topo) : call(ctx, "save_optimizer:mkdir")
    \/ \E ctx \in Contexts(topo) : call(ctx, "save_lr_scheduler:mkdir")
    \/ \E ctx \in Contexts(topo) : call(ctx, "load_optimizer:load")
    \/ \E ctx \in Contexts(topo) : call(ctx, "load_lr_scheduler:load")
    \/ \E ctx \in Contexts(topo) : Step(ctx)

\* every process is scheduled: a process that can take a step keeps no
\* other from it and is not kept from it forever
SpecLines ==
    /\ Init
    /\ [][NextLines]_vars
    /\ \A r \in Ranks : WF_vars(RankStep(r))

----------------------------------------------------------------------------
(* The saves as functions of the checkpoint tree [dirs, files]: the tree a *)
(* call leaves behind when it runs on the tree (ds, fs)                    *)

save_optimizer_tree(ds, fs, ctx, zero, sd) ==
    LET root_folder == OptimizerFolder
        fs1 == IF WritesManifest(ctx)
               THEN write(fs, <<root_folder, "optimizer_config.json">>,
                          [type |-> OptimizerClassName(zero)])
               ELSE fs
    IN  [dirs |-> mkdir(ds, root_folder),
         files |-> IF ~OwnsWrite(ctx, zero)
                   THEN fs1
                   ELSE write(fs1, <<root_folder, optimizer_filename(ctx, zero)>>, sd)]

\* variant: rank 0 starts from an empty checkpoint root
save_lr_scheduler_tree_FreshRoot(ds, fs, ctx, sd) ==
    IF get_global_rank(ctx) > 0
    THEN [dirs |-> ds, files |-> fs]
    ELSE LET root_folder == SchedulerFolder
         IN  [dirs |-> {root_folder},
              files |-> write(<<>>, <<root_folder, lr_scheduler_filename>>, sd)]

save_lr_scheduler_tree(ds, fs, ctx, sd) ==
    IF get_global_rank(ctx) > 0
    THEN [dirs |-> ds, files |-> fs]
    ELSE LET root_folder == SchedulerFolder
         IN  [dirs |-> mkdir(ds, root_folder),
              files |-> write(fs, <<root_folder, lr_scheduler_filename>>, sd)]

\* variant: the manifest is read first and its type checked
load_optimizer_call_ChecksManifest(fs, ctx, zero, map_location) ==
    LET root_folder == OptimizerFolder
        manifest == <<root_folder, "optimizer_config.json">>
        location == IF ~zero THEN "cpu" ELSE map_location
        state_dict == torch_load(fs, <<root_folder, optimizer_filename(ctx, zero)>>, location)
    IN  IF manifest \notin DOMAIN fs
        THEN Call("load_optimizer", "FileNotFoundError", <<>>, "")
        ELSE IF fs[manifest] # [type |-> OptimizerClassName(zero)]
        THEN Call("load_optimizer", "TypeError", <<>>, "")
        ELSE Call("load_optimizer", state_dict.outcome, state_dict.value, state_dict.loc)

\* load_optimizer as a function of the files: how the call ends on the tree fs
load_optimizer_call(fs, ctx, zero, map_location) ==
    LET root_folder == OptimizerFolder
        location == IF ~zero THEN "cpu" ELSE map_location
        state_dict == torch_load(fs, <<root_folder, optimizer_filename(ctx, zero)>>, location)
    IN  Call("load_optimizer", state_dict.outcome, state_dict.value, state_dict.loc)

----------------------------------------------------------------------------
(* Vocabulary of the properties                                            *)

\* every process of the job has completed save_optimizer (and what it wrote is on disk)
AllSaved == \A c \in Contexts(topo) : c \in DOMAIN held

\* processes that hold the same shard gave equal states to save_optimizer
\* (without ZeRO the data-parallel replicas hold identical optimizer state)
Coherent ==
    \A c1 \in DOMAIN held : \A c2 \in DOMAIN held :
        ShardOf(c1, is_zero) = ShardOf(c2, is_zero) => held[c1] = held[c2]

\* the optimizer shard files on disk
ShardFiles == {p \in DOMAIN files : p[1] = OptimizerFolder /\ p # ManifestPath}

\* the processes that have written an optimizer shard file
ShardWriters ==
    UNION {writers[q] : q \in {q \in DOMAIN writers : q[1] = OptimizerFolder /\ q # ManifestPath}}

\* the file a process expects has been written by nobody but itself
OnlyOwnWrites(ctx) ==
    OptimizerPath(ctx, is_zero) \in DOMAIN writers
        => writers[OptimizerPath(ctx, is_zero)] = {ctx}

\* the trees that differ from fs at most in the presence or content of the manifest
ManifestVariants(fs) ==
    {[p \in DOMAIN fs \ {ManifestPath} |-> fs[p]]}
        \cup {write(fs, ManifestPath, [type |-> n]) :
                  n \in {OptimizerClassName(TRUE), OptimizerClassName(FALSE), "SGD"}}

----------------------------------------------------------------------------
(* C1: once every process of the job has completed save_optimizer, in any  *)
(* order, load_optimizer by any process of that job returns and hands the  *)
(* optimizer exactly the state this process gave to its save.              *)
C1_LoadAfterAllSaved ==
    [][\A ctx \in Contexts(topo) : \A m \in MapLocations :
          (last'.op = "load_optimizer" /\ AllSaved /\ Coherent /\ load_optimizer(ctx, m))
              => (last'.outcome = "returned" /\ last'.delivered = <<held[ctx]>>)]_vars

(* C2: concurrent optimizer writers never collide: in any interleaving of  *)
(* save_optimizer calls, no path has been written by two processes that    *)
(* hold different shards (different ownership classes).                    *)
C2_WritersNeverCollide ==
    \A p \in DOMAIN writers : \A c1 \in writers[p] : \A c2 \in writers[p] :
        ShardOf(c1, is_zero) = ShardOf(c2, is_zero)

(* C3: round trip: load_optimizer by a process that has called             *)
(* save_optimizer with state S, no other process having written the file   *)
(* it expects, returns without error and hands S to the optimizer.         *)
C3_RoundTrip ==
    [][\A ctx \in Contexts(topo) : \A m \in MapLocations :
          (last'.op = "load_optimizer" /\ ctx \in DOMAIN held /\ OnlyOwnWrites(ctx)
              /\ load_optimizer(ctx, m))
              => (last'.outcome = "returned" /\ last'.delivered = <<held[ctx]>>)]_vars

(* C4: save_optimizer writes the caller's shard file exactly when the      *)
(* optimizer is sharded (ZeRO) or the caller's data rank is 0; a call that *)
(* does not own the write returns without error and leaves every file as   *)
(* it was; without ZeRO each (pipeline, tensor) group has exactly one      *)
(* process that writes.                                                    *)
C4_OwnershipOfWrite ==
    [][last'.op = "save_optimizer" =>
          \A ctx \in Contexts(topo) : \A sd \in OptimizerStates(ctx, is_zero) :
              save_optimizer(ctx, sd) =>
                  LET p == OptimizerPath(ctx, is_zero)
                      owner == is_zero \/ ctx.dp_rank = 0
                      group == {c \in Contexts(topo) :
                                   c.pp_rank = ctx.pp_rank /\ c.tp_rank = ctx.tp_rank}
                  IN  /\ last'.outcome = "returned"
                      /\ (ctx \in ShardWriters') <=> owner
                      /\ owner => (p \in DOMAIN files' /\ files'[p] = sd /\ ctx \in writers'[p])
                      /\ ~owner => (files' = files /\ writers' = writers)
                      /\ (~is_zero /\ AllSaved') =>
                             Cardinality({c \in group : c \in ShardWriters'}) = 1]_vars

\* Scenario B: 2 pipeline x 2 data x 1 tensor without ZeRO, all four
\* processes have returned from save_optimizer and two of them have written
C4_Witness ==
    /\ ~is_zero
    /\ topo = [pp |-> 2, dp |-> 2, tp |-> 1]
    /\ AllSaved
    /\ last.op = "save_optimizer" /\ last.outcome = "returned"
    /\ Cardinality(ShardWriters) = 2 /\ Cardinality(ShardFiles) = 2

(* C5: after the process with global rank 0 has completed save_optimizer,  *)
(* the manifest optimizer/optimizer_config.json exists and holds the       *)
(* optimizer's class name.                                                 *)
C5_ManifestWritten ==
    [][\A ctx \in Contexts(topo) : \A sd \in OptimizerStates(ctx, is_zero) :
          (last'.op = "save_optimizer" /\ get_global_rank(ctx) = 0 /\ save_optimizer(ctx, sd))
              => /\ ManifestPath \in DOMAIN files'
                 /\ files'[ManifestPath] = [type |-> OptimizerClassName(is_zero)]]_vars

(* C6: a checkpoint saved by all processes of one topology is not          *)
(* misloaded by another: load_optimizer (same mode) by a process of a      *)
(* topology that differs in the data, tensor or pipeline world size fails  *)
(* with the file-not-found error.                                          *)
C6_TopologyMismatchDetected ==
    [][\A ctx \in AllContexts : \A m \in MapLocations :
          (last'.op = "load_optimizer" /\ AllSaved /\ TopologyOf(ctx) # topo
              /\ load_optimizer(ctx, m))
              => (last'.outcome = "FileNotFoundError" /\ last'.delivered = <<>>)]_vars

(* C7: with ZeRO (SHARDED), processes with distinct coordinates compute    *)
(* distinct paths: once all have saved, the optimizer folder holds exactly *)
(* pp*dp*tp shard files, each written by one process and holding the state *)
(* that process saved.                                                     *)
C7_ShardedOneFilePerProcess ==
    (is_zero /\ AllSaved) =>
        /\ Cardinality(ShardFiles) = topo.pp * topo.dp * topo.tp
        /\ \A c \in Contexts(topo) :
              /\ OptimizerPath(c, is_zero) \in ShardFiles
              /\ files[OptimizerPath(c, is_zero)] = held[c]
              /\ writers[OptimizerPath(c, is_zero)] = {c}

\* Scenario A: 2 pipeline x 2 data x 1 tensor, all four processes have saved
C7_Witness ==
    /\ is_zero
    /\ topo = [pp |-> 2, dp |-> 2, tp |-> 1]
    /\ AllSaved
    /\ Cardinality(ShardFiles) = 4
    /\ last.op = "save_optimizer"

(* C8: without ZeRO (REPLICATED), once all processes have saved, there is  *)
(* exactly one shard file per (pipeline, tensor) group, written by the     *)
(* data-rank-0 process of that group and by no other process.              *)
C8_ReplicatedOneFilePerGroup ==
    (~is_zero /\ AllSaved) =>
        /\ Cardinality(ShardFiles) = topo.pp * topo.tp
        /\ \A p \in ShardFiles :
              \E c \in Contexts(topo) : c.dp_rank = 0 /\ writers[p] = {c}

(* C9: load_optimizer and load_lr_scheduler raise the file-not-found error *)
(* when the file they expect is absent; load_state_dict is not reached,    *)
(* nothing is retried and nothing on disk changes.                         *)
C9_MissingFileRaises ==
    [][/\ last'.op = "load_optimizer" =>
             \A ctx \in Contexts(topo) : \A m \in MapLocations :
                (load_optimizer(ctx, m) /\ OptimizerPath(ctx, is_zero) \notin DOMAIN files)
                    => /\ last'.outcome = "FileNotFoundError"
                       /\ last'.delivered = <<>>
                       /\ files' = files /\ dirs' = dirs
       /\ (last'.op = "load_lr_scheduler" /\ load_lr_scheduler
                /\ SchedulerPath \notin DOMAIN files)
                    => /\ last'.outcome = "FileNotFoundError"
                       /\ last'.delivered = <<>>
                       /\ files' = files /\ dirs' = dirs]_vars

\* a load has failed on an absent file in a checkpoint root that has been
\* saved into (both folders exist)
C9_Witness ==
    /\ last.op \in {"load_optimizer", "load_lr_scheduler"}
    /\ last.outcome = "FileNotFoundError" /\ last.delivered = <<>>
    /\ dirs = {OptimizerFolder, SchedulerFolder}
    /\ files = <<>>

C11_SchedulerLoadAgreement ==
    last.op = "load_lr_scheduler" =>
        IF held_lr # <<>>
        THEN last.outcome = "returned" /\ last.delivered = held_lr
        ELSE last.outcome = "FileNotFoundError" /\ last.delivered = <<>>

\* Scenario D: in a job of four processes rank 0 has saved the scheduler
\* and a load has returned the state it saved
C11_Witness ==
    /\ topo = [pp |-> 2, dp |-> 2, tp |-> 1]
    /\ held_lr # <<>>
    /\ last.op = "load_lr_scheduler" /\ last.outcome = "returned"
    /\ last.delivered = held_lr

(* C12: each process only touches files keyed by its own coordinates:      *)
(* save_optimizer creates or changes at most the caller's own shard file   *)
(* and the manifest, and leaves every file another process has written     *)
(* (the other shard files, the scheduler file) as it was; load_optimizer    *)
(* delivers the content of the caller's own file, which is never the shard *)
(* of another rank.                                                        *)
C12_OwnFilesOnly ==
    [][/\ last'.op = "save_optimizer" =>
             \A ctx \in Contexts(topo) : \A sd \in OptimizerStates(ctx, is_zero) :
                save_optimizer(ctx, sd) =>
                    LET own == {OptimizerPath(ctx, is_zero), ManifestPath}
                    IN  /\ DOMAIN files' \subseteq DOMAIN files \cup own
                        /\ \A p \in DOMAIN files \ own :
                              p \in DOMAIN files' /\ files'[p] = files[p]
                        /\ \A p \in DOMAIN writers :
                              (\E c \in writers[p] : c # ctx)
                                  => (p \in DOMAIN files' /\ files'[p] = files[p])
       /\ last'.op = "load_optimizer" =>
             \A ctx \in Contexts(topo) : \A m \in MapLocations :
                (load_optimizer(ctx, m) /\ last'.outcome = "returned") =>
                    LET p == OptimizerPath(ctx, is_zero)
                    IN  /\ last'.delivered = <<files[p]>>
                        /\ files[p].shard = ShardOf(ctx, is_zero)
                        /\ \A c \in writers[p] :
                              ShardOf(c, is_zero) = ShardOf(ctx, is_zero)]_vars

(* C13: save overwrites rather than merges, and is idempotent: when an     *)
(* owning process that has saved S1 calls save_optimizer with S2, the      *)
(* shard file holds exactly S2 afterwards and no path appears, disappears  *)
(* or changes beside it; a process that saves the state it saved before    *)
(* leaves the whole tree, directories included, as it was.                 *)
C13_SaveOverwrites ==
    [][last'.op = "save_optimizer" =>
          \A ctx \in DOMAIN held :
              save_optimizer(ctx, held'[ctx]) =>
                  LET p == OptimizerPath(ctx, is_zero)
                      S1 == held[ctx]
                      S2 == held'[ctx]
                      owner == OwnsWrite(ctx, is_zero)
                      exists == OptimizerFolder \in dirs /\ (owner => p \in DOMAIN files)
                  IN  /\ owner => files'[p] = S2
                      /\ \A q \in DOMAIN files \ {p} : q \in DOMAIN files' /\ files'[q] = files[q]
                      /\ exists => (DOMAIN files' = DOMAIN files /\ dirs' = dirs)
                      /\ (exists /\ (owner => files[p] = S1) /\ S2 = S1)
                            => (files' = files /\ dirs' = dirs)]_vars

\* an owning process that had saved state 0 has saved again, and its file
\* holds the state of the second save; the scheduler file is still there
C13_Witness ==
    /\ last.op = "save_optimizer" /\ last.outcome = "returned"
    /\ SchedulerPath \in DOMAIN files
    /\ \E ctx \in DOMAIN held :
          LET p == OptimizerPath(ctx, is_zero)
          IN  /\ OwnsWrite(ctx, is_zero)
              /\ writers[p] = {ctx}
              /\ held[ctx].ver = MaxVer /\ files[p] = held[ctx]

(* C14: within one process save_optimizer and save_lr_scheduler are        *)
(* independent: from every checkpoint tree, running the two in either      *)
(* order leaves the same tree, save_optimizer leaves every path outside    *)
(* the optimizer folder as it was and save_lr_scheduler leaves every path  *)
(* but the scheduler file and its folder as it was (save_optimizer_tree    *)
(* and save_lr_scheduler_tree are the trees the two calls leave behind,    *)
(* as every save step confirms).                                           *)
C14_SavesIndependent ==
    /\ [][/\ last'.op = "save_optimizer" =>
                \A ctx \in DOMAIN held' :
                    \/ [dirs |-> dirs', files |-> files']
                            = save_optimizer_tree(dirs, files, ctx, is_zero, held'[ctx])
                    \/ ~save_optimizer(ctx, held'[ctx])
          /\ last'.op = "save_lr_scheduler" =>
                \A ctx \in Contexts(topo) : \A ss \in SchedulerStates :
                    \/ [dirs |-> dirs', files |-> files']
                            = save_lr_scheduler_tree(dirs, files, ctx, ss)
                    \/ ~save_lr_scheduler(ctx, ss)]_vars
    /\ [](\A ctx \in Contexts(topo) :
             /\ \A ss \in SchedulerStates :
                   LET l == save_lr_scheduler_tree(dirs, files, ctx, ss)
                   IN  /\ l.dirs \ {SchedulerFolder} = dirs \ {SchedulerFolder}
                       /\ \A q \in DOMAIN l.files \cup DOMAIN files :
                             q # SchedulerPath =>
                                 (q \in DOMAIN l.files /\ q \in DOMAIN files
                                     /\ l.files[q] = files[q])
             /\ \A so \in OptimizerStates(ctx, is_zero) :
                   LET o == save_optimizer_tree(dirs, files, ctx, is_zero, so)
                   IN  /\ o.dirs \ {OptimizerFolder} = dirs \ {OptimizerFolder}
                       /\ \A q \in DOMAIN o.files \cup DOMAIN files :
                             q[1] # OptimizerFolder =>
                                 (q \in DOMAIN o.files /\ q \in DOMAIN files
                                     /\ o.files[q] = files[q])
                       /\ \A ss \in SchedulerStates :
                             LET l == save_lr_scheduler_tree(dirs, files, ctx, ss)
                             IN  save_lr_scheduler_tree(o.dirs, o.files, ctx, ss)
                                   = save_optimizer_tree(l.dirs, l.files, ctx, is_zero, so))

\* global rank 0 of a job of four processes has saved both its optimizer
\* state and the scheduler state, and both files are on disk
C14_Witness ==
    /\ topo = [pp |-> 2, dp |-> 2, tp |-> 1]
    /\ last.op \in {"save_optimizer", "save_lr_scheduler"}
    /\ held_lr # <<>> /\ SchedulerPath \in DOMAIN files
    /\ \E ctx \in DOMAIN held :
          /\ get_global_rank(ctx) = 0
          /\ OptimizerPath(ctx, is_zero) \in DOMAIN files
          /\ files[OptimizerPath(ctx, is_zero)] = held[ctx]
          /\ files[SchedulerPath] = held_lr[1]

\* the process with global rank r is inside a call
InCall(r) == \E ctx \in Contexts(topo) : get_global_rank(ctx) = r /\ pc[ctx] # "idle"

(* C15: save and load cannot deadlock against other processes: a process   *)
(* inside a call can always do its next operation, whatever the other      *)
(* processes have done or are doing, and under fair scheduling of each     *)
(* process every call that was started ends (it returns or raises): the   *)
(* process is outside a call again and again.                              *)
C15_NoDeadlock ==
    /\ [](\A r \in Ranks : InCall(r) => ENABLED RankStep(r))
    /\ \A r \in Ranks : []<>~InCall(r)

\* two processes are inside a call at once, one of them about to load
\* the file the other has not written yet
C15_Witness ==
    \E c1 \in Contexts(topo) : \E c2 \in Contexts(topo) :
        /\ c1 # c2
        /\ pc[c1] = "load_optimizer:load"
        /\ pc[c2] = "save_optimizer:save"
        /\ OptimizerPath(c1, is_zero) \notin DOMAIN files

(* C16: load_optimizer performs no validation against the manifest: on two *)
(* trees that differ only in the presence or content of                    *)
(* optimizer/optimizer_config.json, load_optimizer by the same process     *)
(* ends the same way and delivers the same state (load_optimizer_call      *)
(* being how the call ends on a tree).                                     *)
C16_ManifestIgnoredByLoad ==
    /\ [][last'.op = "load_optimizer" =>
              \A ctx \in Contexts(topo) : \A m \in MapLocations :
                  \/ last' = load_optimizer_call(files, ctx, is_zero, m)
                  \/ ~load_optimizer(ctx, m)]_vars
    /\ [](LET variants == ManifestVariants(files)
           IN  \A ctx \in Contexts(topo) : \A m \in MapLocations :
                  LET here == load_optimizer_call(files, ctx, is_zero, m)
                  IN  \A fs \in variants : load_optimizer_call(fs, ctx, is_zero, m) = here)

\* a load has returned a state from a tree without manifest, and ends the
\* same way on the tree that has a manifest naming another optimizer type
C16_Witness ==
    /\ last.op = "load_optimizer" /\ last.outcome = "returned"
    /\ ManifestPath \notin DOMAIN files
    /\ \E ctx \in Contexts(topo) : \E m \in MapLocations :
          /\ last = load_optimizer_call(files, ctx, is_zero, m)
          /\ last = load_optimizer_call(write(files, ManifestPath, [type |-> "SGD"]),
                                        ctx, is_zero, m)

(* C17: deserialization target of load_optimizer: without ZeRO             *)
(* (REPLICATED) the shard is put on "cpu" whatever map_location the caller *)
(* passed; with ZeRO (SHARDED) it is put on the caller's map_location,     *)
(* None included.                                                          *)
C17_DeserializationTarget ==
    [][last'.op = "load_optimizer" =>
          \A ctx \in Contexts(topo) : \A m \in MapLocations :
              \/ (last'.outcome = "returned" /\ last'.loc = IF is_zero THEN m ELSE "cpu")
              \/ ~(load_optimizer(ctx, m) /\ OptimizerPath(ctx, is_zero) \in DOMAIN files)]_vars

\* a load without ZeRO has put a shard on "cpu"
C17_Witness ==
    /\ ~is_zero
    /\ last.op = "load_optimizer" /\ last.outcome = "returned"
    /\ last.loc = "cpu" /\ last.delivered # <<>>

\* a load with ZeRO has put a shard on the location None the caller passed
C17_WitnessSharded ==
    /\ is_zero
    /\ last.op = "load_optimizer" /\ last.outcome = "returned"
    /\ last.loc = "None" /\ last.delivered # <<>>

====
